---- MODULE Spec2Model ----
(***************************************************************************)
(* State-machine model of src/webhook_server.py: the TradingView webhook   *)
(* handler (tradingview), its sizing helpers (market_meta, floor_to_step,  *)
(* clamp_amount, compute_amount_from_notional), the position reader        *)
(* (get_position) and the two order helpers (reduce_only_close,            *)
(* place_market), run against an exchange account that holds one net       *)
(* position on one symbol.                                                 *)
(*                                                                         *)
(* Amounts are integers counted in a base unit; a raw amount is the exact  *)
(* rational n/d (a quantity is n/1, a notional conversion is notional/px). *)
(* One unit is 0.1 of the base asset, so a step of 1 is the float 0.1: the  *)
(* quotients that Python's float division of such values rounds below the  *)
(* exact integer (0.3 / 0.1 = 2.9999999999999996) are kept as they are.    *)
(* Python's None is <<>> and a present value v is <<v>>.                   *)
(***************************************************************************)
EXTENDS Integers, Sequences, FiniteSets, TLC

\* ------------------------------------------------------------ bounds
MaxStep == 2
MaxMin == 3
MaxQty == 2
MaxNotional == 3
MaxPrice == 2
MaxInitPos == 3
MaxRequests == 2
MaxRaw == 7
MaxRowVal == 2

\* ------------------------------------------------------------ values
None == <<>>
Some(v) == <<v>>
Truthy(x) == x # None /\ x[1] # 0

Workers == {"w1", "w2"}

Actions == {"buy", "sell", "long", "short", ""}

Leverages == {None, Some(2)}

Markets == [amount_prec : 1..MaxStep, min : 0..MaxMin]

\* The markets the handler is run on: one whose metadata gives no minimum and a
\* step of one unit, one whose minimum is not a multiple of its step.
HandlerMarkets == {[amount_prec |-> 1, min |-> 0], [amount_prec |-> 2, min |-> 3]}

Modes == {"margin", "notional"}

Flat == [side |-> "None", size |-> 0]

Positions == {Flat} \cup [side : {"long", "short"}, size : 1..MaxInitPos]

Payloads ==
    [action : {"buy", "sell"}, known : {TRUE}, leverage : Leverages,
     quantity : {Some(q) : q \in (-1)..MaxQty}, notional : {None}]
    \cup
    [action : {"buy", "sell"}, known : {TRUE}, leverage : Leverages,
     quantity : {None}, notional : {None} \cup {Some(n) : n \in 1..MaxNotional}]
    \cup
    [action : {"long", "short", ""}, known : {TRUE}, leverage : {None},
     quantity : {Some(1)}, notional : {None}]
    \cup
    [action : {"buy"}, known : {FALSE}, leverage : {None},
     quantity : {Some(1)}, notional : {None}]

\* What the two market-data calls of fetch_last can return: the ticker call
\* raises or gives last/close (0 when absent), the order-book call raises or
\* gives the best bid and ask (0 when that side of the book is empty).
Tickers ==
    {[raises |-> TRUE, last |-> 0, close |-> 0],
     [raises |-> FALSE, last |-> 0, close |-> 0],
     [raises |-> FALSE, last |-> 0, close |-> MaxPrice],
     [raises |-> FALSE, last |-> 1, close |-> 0]}

Books ==
    {[raises |-> TRUE, bid |-> 0, ask |-> 0],
     [raises |-> FALSE, bid |-> 1, ask |-> 0],
     [raises |-> FALSE, bid |-> 1, ask |-> 1]}

MarketData == [ticker : Tickers, book : Books]

\* What create_order can do: accept the order and fill it, accept it without
\* a fill, or raise a ccxt error whose condition is transient or permanent.
GwOutcomes == {"filled", "unfilled", "transient", "permanent"}

Accepted(o) == o \in {"filled", "unfilled"}

\* ------------------------------------------------------------ sizing
FetchLast(md) ==
    LET t == md.ticker
        px == IF t.raises THEN 0 ELSE IF t.last # 0 THEN t.last ELSE t.close
        ob == md.book
    IN  IF px # 0 THEN [exc |-> "none", px |-> px]
        ELSE IF ob.raises THEN [exc |-> "ccxt", px |-> 0]
        ELSE IF ob.bid # 0 /\ ob.ask # 0
             THEN [exc |-> "none", px |-> (ob.bid + ob.ask) \div 2]
        ELSE [exc |-> "RuntimeError", px |-> 0]

MarketMeta(m) ==
    [amount_step |-> m.amount_prec,
     min_amount |-> IF m.min # 0 THEN m.min ELSE m.amount_prec]

\* math.floor(value / step) on IEEE doubles, value = n/d units and step in
\* units of 0.1: for steps 0.1, 0.2 and 0.4 the quotient of an exact multiple
\* k * step falls just below k for the k listed (k up to 24), and is exact
\* otherwise; a value that is no multiple is far enough from one to floor exactly.
FloatLossSteps == {1, 2, 4}

FloatLossQuotients == {3, 6, 7, 12, 14, 19, 23, 24}

FloorQuotient(n, d, step) ==
    LET q == n \div (d * step)
    IN  IF n % (d * step) = 0 /\ step \in FloatLossSteps /\ q \in FloatLossQuotients
        THEN q - 1
        ELSE q

FloorToStep(n, d, step) ==
    IF step <= 0 THEN n \div d ELSE FloorQuotient(n, d, step) * step

\* ccxt's amount_to_precision: truncate to a multiple of the market's amount
\* precision; ccxt raises InvalidOrder when nothing is left.
AmountToPrecision(m, a) ==
    LET t == (a \div m.amount_prec) * m.amount_prec
    IN  IF t = 0 THEN [exc |-> "ccxt", amt |-> 0] ELSE [exc |-> "none", amt |-> t]

ClampAmount(m, n, d) ==
    LET meta == MarketMeta(m)
        floored == FloorToStep(n, d, meta.amount_step)
        bumped == IF floored <= 0 THEN meta.amount_step ELSE floored
        raised == IF bumped < meta.min_amount THEN meta.min_amount ELSE bumped
    IN  AmountToPrecision(m, raised)

ComputeAmountFromNotionalUnchecked(m, md, notional) ==
    LET f == FetchLast(md)
        c == ClampAmount(m, notional, f.px)
    IN  IF f.exc # "none" THEN [exc |-> f.exc, amt |-> 0]
        ELSE c

ComputeAmountFromNotional(m, md, notional) ==
    LET f == FetchLast(md)
        c == ClampAmount(m, notional, f.px)
        min_notional == MarketMeta(m).min_amount * f.px
    IN  IF f.exc # "none" THEN [exc |-> f.exc, amt |-> 0]
        ELSE IF c.exc # "none" THEN c
        ELSE IF c.amt <= 0 \/ notional < min_notional
             THEN [exc |-> "ValueError", amt |-> 0]
        ELSE c

\* ------------------------------------------------------------ position
Present(p, k) == k \in DOMAIN p /\ p[k] # None

FirstOf(p, keys) ==
    LET hit == {i \in 1..Len(keys) : Present(p, keys[i])}
    IN  IF hit = {} THEN None
        ELSE p[keys[CHOOSE i \in hit : \A j \in hit : i <= j]]

Abs(x) == IF x < 0 THEN -x ELSE x

\* One row of fetch_positions, read as the loop body of get_position reads it:
\* the size, then the side, then whether the row is taken.
RowSize(p) ==
    LET size == FirstOf(p, <<"contracts", "contractSize", "size", "amount">>)
        info == IF Present(p, "info") THEN p["info"][1] ELSE <<>>
        isz == FirstOf(info, <<"sz", "totalSz", "positionSize">>)
    IN  IF Truthy(size) THEN size
        ELSE IF isz # None THEN Some(Abs(isz[1]))
        ELSE size

RowSide(p) ==
    LET side == IF Present(p, "side") /\ p["side"] # Some("") THEN p["side"] ELSE None
        signed == FirstOf(p, <<"contracts", "size", "amount">>)
    IN  IF side # None THEN side[1]
        ELSE IF signed = None THEN "None"
        ELSE IF signed[1] > 0 THEN "long"
        ELSE IF signed[1] < 0 THEN "short"
        ELSE "None"

RECURSIVE ScanRows(_, _)
ScanRows(rows, symbol) ==
    IF rows = <<>> THEN Flat
    ELSE LET p == Head(rows)
             size == RowSize(p)
         IN  IF ~("symbol" \in DOMAIN p /\ p["symbol"] = Some(symbol))
             THEN ScanRows(Tail(rows), symbol)
             ELSE IF Truthy(size) /\ size[1] > 0
                  THEN [side |-> RowSide(p), size |-> size[1]]
             ELSE ScanRows(Tail(rows), symbol)

GetPositionUnguarded(fetched, rows, symbol) == ScanRows(rows, symbol)

\* fetched = FALSE is fetch_positions raising: the rows are then the empty list.
GetPosition(fetched, rows, symbol) ==
    ScanRows(IF fetched THEN rows ELSE <<>>, symbol)

Symbol == "SOL/USDC:USDC"

\* The rows the gateway returns for the account: ccxt's unified position
\* (side plus unsigned contracts), and no row when the account is flat.
FetchPositions(a) ==
    IF a.size = 0 THEN <<>>
    ELSE << [k \in {"symbol", "contracts", "side", "entryPrice"} |->
               CASE k = "symbol" -> Some(Symbol)
                 [] k = "contracts" -> Some(a.size)
                 [] k = "side" -> Some(a.side)
                 [] OTHER -> None] >>

\* ------------------------------------------------------------ exchange
Signed(a) == IF a.side = "long" THEN a.size ELSE IF a.side = "short" THEN -a.size ELSE 0

ToPosition(s) ==
    IF s > 0 THEN [side |-> "long", size |-> s]
    ELSE IF s < 0 THEN [side |-> "short", size |-> -s]
    ELSE Flat

Min(a, b) == IF a <= b THEN a ELSE b

\* A complete fill of an order on the account. A reduce-only order trades only
\* against an opposing position and never more than that position's size.
FillOrder(a, side, amount, reduce_only) ==
    LET s == Signed(a)
        dir == IF side = "buy" THEN 1 ELSE -1
        qty == IF ~reduce_only THEN amount
               ELSE IF s * dir < 0 THEN Min(amount, Abs(s))
               ELSE 0
    IN  ToPosition(s + dir * qty)

CreateOrder(a, side, amount, reduce_only, outcome) ==
    IF outcome = "filled" THEN FillOrder(a, side, amount, reduce_only) ELSE a

\* ------------------------------------------------------------ handler
VARIABLES market, mode, acct, h, nreq, quant, probe

vars == <<market, mode, acct, h, nreq, quant, probe>>

NoResp ==
    [status |-> "none", http |-> 0, keys |-> {}, message |-> "",
     amount |-> 0, closed |-> "None", opened |-> "None", added |-> "None"]

ErrorResp(http, message) ==
    [status |-> "error", http |-> http, keys |-> {"status", "message"},
     message |-> message,
     amount |-> 0, closed |-> "None", opened |-> "None", added |-> "None"]

OkResp(amount, closed, opened, added) ==
    [status |-> "ok", http |-> 200,
     keys |-> {"status", "symbol", "desired_side", "desired_amount", "tif",
               "notional_mode", "effective_notional_used", "actions", "debug"},
     message |-> "",
     amount |-> amount, closed |-> closed, opened |-> opened, added |-> added]

\* A handler that lacks the ccxt.BaseError clause: exchange errors fall through to 500.
ExceptWithoutCcxt(exc) ==
    IF exc = "ValueError" THEN ErrorResp(400, exc) ELSE ErrorResp(500, exc)

\* The except clauses of tradingview: ValueError and ccxt.BaseError give 400,
\* any other exception gives 500.
Except(exc) ==
    IF exc = "ValueError" THEN ErrorResp(400, exc)
    ELSE IF exc \in {"ccxt", "transient", "permanent"} THEN ErrorResp(400, exc)
    ELSE ErrorResp(500, exc)

NoPayload ==
    [action |-> "", known |-> FALSE, leverage |-> None, quantity |-> None,
     notional |-> None]

\* req is the payload; last_price is debug_info's last_price (0 when no price
\* was fetched for sizing).
Idle ==
    [pc |-> "idle", req |-> NoPayload, last_price |-> 0,
     action |-> "", desired_side |-> "None", desired_amt |-> 0,
     pos |-> Flat, pos_fetched |-> FALSE, pos_reads |-> 0, close_resp |-> "None",
     calls |-> <<>>, resp |-> NoResp]

\* The amount the request asks for: clamp_amount of the quantity, or
\* compute_amount_from_notional of the (leveraged) notional.
EffectiveNotionalAnyMode(nm, pl) ==
    IF Truthy(pl.leverage)
    THEN pl.notional[1] * pl.leverage[1]
    ELSE pl.notional[1]

EffectiveNotional(nm, pl) ==
    IF nm = "margin" /\ Truthy(pl.leverage)
    THEN pl.notional[1] * pl.leverage[1]
    ELSE pl.notional[1]

DesiredAmount(m, nm, pl, md) ==
    IF pl.quantity # None THEN ClampAmount(m, pl.quantity[1], 1)
    ELSE ComputeAmountFromNotional(m, md, EffectiveNotional(nm, pl))

ValidateFourWords(pl) ==
    IF pl.action \notin {"buy", "sell", "long", "short"} THEN "action"
    ELSE IF ~pl.known THEN "market"
    ELSE IF pl.quantity = None /\ pl.notional = None THEN "size"
    ELSE "ok"

ValidateAnyMarket(pl) ==
    IF pl.action \notin {"buy", "sell"} THEN "action"
    ELSE IF pl.quantity = None /\ pl.notional = None THEN "size"
    ELSE "ok"

\* The three early returns of tradingview, in the order the code reaches them.
Validate(pl) ==
    IF pl.action \notin {"buy", "sell"} THEN "action"
    ELSE IF ~pl.known THEN "market"
    ELSE IF pl.quantity = None /\ pl.notional = None THEN "size"
    ELSE "ok"

DesiredSide(action) == IF action = "buy" THEN "long" ELSE "short"

\* The order side taken from the wrong branch.
SideWordSwapped(desired_side) == IF desired_side = "long" THEN "sell" ELSE "buy"

SideWord(desired_side) == IF desired_side = "long" THEN "buy" ELSE "sell"

\* A close on the position's own side instead of the opposite one.
OppositeSideSame(side_to_close) == IF side_to_close = "long" THEN "buy" ELSE "sell"

OppositeSide(side_to_close) == IF side_to_close = "long" THEN "sell" ELSE "buy"

\* tradingview up to the position read: validation and sizing. ensure_leverage
\* changes nothing here (it swallows its own failure) and tif is passed through
\* to the gateway unread, so neither is part of the state.
Receive(p, pl, md) ==
    /\ h[p].pc = "idle"
    /\ nreq < MaxRequests
    /\ nreq' = nreq + 1
    /\ UNCHANGED <<market, mode, acct, quant, probe>>
    /\ LET v == Validate(pl)
           amt == DesiredAmount(market, mode, pl, md)
           px == IF pl.quantity = None THEN FetchLast(md).px ELSE 0
           fresh == [Idle EXCEPT !.pc = "done", !.req = pl, !.action = pl.action]
       IN  IF v # "ok"
           THEN h' = [h EXCEPT ![p] = [fresh EXCEPT !.resp = ErrorResp(400, v)]]
           ELSE IF amt.exc # "none"
           THEN h' = [h EXCEPT ![p] = [fresh EXCEPT !.last_price = px,
                                                    !.resp = Except(amt.exc)]]
           ELSE h' = [h EXCEPT ![p] =
                        [fresh EXCEPT !.pc = "position",
                                      !.last_price = px,
                                      !.desired_side = DesiredSide(pl.action),
                                      !.desired_amt = amt.amt]]

\* pos = get_position(hl_symbol), and the branch on it.
ReadPosition(p, fetched) ==
    /\ h[p].pc = "position"
    /\ LET pos == GetPosition(fetched, FetchPositions(acct), Symbol)
           flip == pos.side # "None" /\ pos.side # h[p].desired_side /\ pos.size > 0
       IN  h' = [h EXCEPT ![p].pos = pos,
                          ![p].pos_fetched = fetched,
                          ![p].pos_reads = @ + 1,
                          ![p].pc = IF flip THEN "close" ELSE "place"]
    /\ UNCHANGED <<market, mode, acct, nreq, quant, probe>>

\* One market order through create_order, after its reference-price fetch:
\* the helper's result and what it did to the account and the call log.
Submit(p, md, outcome, side, amount, reduce_only) ==
    LET f == FetchLast(md)
        call == [side |-> side, amount |-> amount, reduce_only |-> reduce_only,
                 outcome |-> outcome, held |-> acct]
    IN  IF f.exc # "none"
        THEN [exc |-> f.exc, calls |-> h[p].calls, acct |-> acct]
        ELSE [exc |-> IF Accepted(outcome) THEN "none" ELSE outcome,
              calls |-> Append(h[p].calls, call),
              acct |-> CreateOrder(acct, side, amount, reduce_only, outcome)]

\* A close whose failure is swallowed: the handler goes on to the opening order.
ReduceOnlyCloseSwallowed(p, md, outcome) ==
    /\ h[p].pc = "close"
    /\ LET r == Submit(p, md, outcome, OppositeSide(h[p].pos.side), h[p].pos.size, TRUE)
       IN  /\ acct' = r.acct
           /\ h' = [h EXCEPT ![p].pc = "place", ![p].calls = r.calls,
                             ![p].close_resp = IF r.exc = "none" THEN "order" ELSE "None"]
    /\ UNCHANGED <<market, mode, nreq, quant, probe>>

\* close_resp = reduce_only_close(hl_symbol, pos["side"], pos["size"], tif).
\* The helper's own guard (no side, or size <= 0) cannot hold here: the caller
\* enters only with a side and a positive size.
ReduceOnlyClose(p, md, outcome) ==
    /\ h[p].pc = "close"
    /\ LET r == Submit(p, md, outcome, OppositeSide(h[p].pos.side), h[p].pos.size, TRUE)
       IN  /\ acct' = r.acct
           /\ IF r.exc # "none"
              THEN h' = [h EXCEPT ![p].pc = "done", ![p].calls = r.calls,
                                  ![p].resp = Except(r.exc)]
              ELSE h' = [h EXCEPT ![p].pc = "place", ![p].calls = r.calls,
                                  ![p].close_resp = "order"]
    /\ UNCHANGED <<market, mode, nreq, quant, probe>>

\* open_resp or added_resp = place_market(...), then the response.
PlaceMarket(p, md, outcome) ==
    /\ h[p].pc = "place"
    /\ LET opening == h[p].pos.side = "None" \/ h[p].pos.side # h[p].desired_side
           r == Submit(p, md, outcome, SideWord(h[p].desired_side), h[p].desired_amt, FALSE)
       IN  /\ acct' = r.acct
           /\ IF r.exc # "none"
              THEN h' = [h EXCEPT ![p].pc = "done", ![p].calls = r.calls,
                                  ![p].resp = Except(r.exc)]
              ELSE h' = [h EXCEPT ![p].pc = "done", ![p].calls = r.calls,
                                  ![p].resp = OkResp(h[p].desired_amt, h[p].close_resp,
                                                     IF opening THEN "order" ELSE "None",
                                                     IF opening THEN "None" ELSE "order")]
    /\ UNCHANGED <<market, mode, nreq, quant, probe>>

\* The handler returns: the response is sent and the request's locals are gone.
Return(p) ==
    /\ h[p].pc = "done"
    /\ h' = [h EXCEPT ![p] = Idle]
    /\ UNCHANGED <<market, mode, acct, nreq, quant, probe>>

\* clamp_amount on its own: the raw amount n/d on the market's rules.
\* `again` is clamp_amount applied to its own result.
NoQuant ==
    [applied |-> FALSE, n |-> 0, d |-> 1, out |-> [exc |-> "none", amt |-> 0],
     again |-> [exc |-> "none", amt |-> 0]]

Clamp(n, d) ==
    /\ LET out == ClampAmount(market, n, d)
       IN  quant' = [applied |-> TRUE, n |-> n, d |-> d, out |-> out,
                     again |-> IF out.exc = "none" THEN ClampAmount(market, out.amt, 1)
                               ELSE out]
    /\ UNCHANGED <<market, mode, acct, h, nreq, probe>>

\* get_position on its own: one row of fetch_positions, in every shape the
\* reader probes. A key that is absent and a key that holds None read the same
\* (key in p and p[key] not in (None, ""); p.get; float(None) raising inside
\* try), so every row has all the keys and None stands for both.
RowValues == {None} \cup {Some(v) : v \in (-MaxRowVal)..MaxRowVal}

RowKeys == {"symbol", "contracts", "contractSize", "size", "amount", "side", "info"}

InfoKeys == {"sz", "totalSz", "positionSize"}

Row(symbol, contracts, contractSize, size, side, sz) ==
    [k \in RowKeys |->
        CASE k = "symbol" -> Some(symbol)
          [] k = "contracts" -> contracts
          [] k = "contractSize" -> contractSize
          [] k = "size" -> size
          [] k = "amount" -> None
          [] k = "side" -> side
          [] OTHER -> Some([i \in InfoKeys |-> IF i = "sz" THEN sz ELSE None])]

NoProbe ==
    [applied |-> FALSE, fetched |-> FALSE,
     row |-> Row("", None, None, None, None, None), out |-> Flat]

Rows ==
    {Row(symbol, contracts, contractSize, size, side, sz) :
        symbol \in {Symbol, "BTC/USDC:USDC"}, contracts \in RowValues,
        contractSize \in {None, Some(1)}, size \in RowValues,
        side \in {None, Some("long"), Some("short")}, sz \in RowValues}

\* The call under study: the row and whether fetch_positions answered are the
\* inputs, drawn when the behaviour starts.
Probe ==
    /\ ~probe.applied
    /\ probe' = [probe EXCEPT !.applied = TRUE,
                    !.out = GetPosition(probe.fetched, <<probe.row>>, Symbol)]
    /\ UNCHANGED <<market, mode, acct, h, nreq, quant>>

Init ==
    /\ market \in HandlerMarkets
    /\ mode \in Modes
    /\ acct \in Positions
    /\ h = [p \in Workers |-> Idle]
    /\ nreq = 0
    /\ quant = NoQuant
    /\ probe = NoProbe

\* One request at a time: a single worker handles the requests one after another.
Sequential == {"w1"}

Next ==
    \E p \in Sequential :
        \/ \E pl \in Payloads, md \in MarketData : Receive(p, pl, md)
        \/ \E fetched \in BOOLEAN : ReadPosition(p, fetched)
        \/ \E md \in MarketData, o \in GwOutcomes : ReduceOnlyClose(p, md, o)
        \/ \E md \in MarketData, o \in GwOutcomes : PlaceMarket(p, md, o)
        \/ Return(p)

Spec == Init /\ [][Next]_vars

InitClamp ==
    /\ market \in Markets
    /\ mode = "margin"
    /\ acct = Flat
    /\ h = [p \in Workers |-> Idle]
    /\ nreq = 0
    /\ quant = NoQuant
    /\ probe = NoProbe

NextClamp == \E n \in (-1)..MaxRaw, d \in 1..MaxPrice : Clamp(n, d)

SpecClamp == InitClamp /\ [][NextClamp]_vars

InitPosition ==
    /\ market = [amount_prec |-> 1, min |-> 0]
    /\ mode = "margin"
    /\ acct = Flat
    /\ h = [p \in Workers |-> Idle]
    /\ nreq = 0
    /\ quant = NoQuant
    /\ probe \in {[NoProbe EXCEPT !.fetched = f, !.row = r] : f \in BOOLEAN, r \in Rows}

NextPosition == Probe

SpecPosition == InitPosition /\ [][NextPosition]_vars

\* Two invocations of the handler in flight at once: nothing in the handler
\* orders its steps against another request's, so every interleaving of the
\* two workers' gateway calls can happen.
ConcurrentPayloads ==
    {pl \in Payloads : pl.known /\ pl.action \in {"buy", "sell"} /\ pl.leverage = None
                        /\ pl.quantity \in {Some(1), Some(MaxQty)}}

Quoted == [ticker |-> [raises |-> FALSE, last |-> 1, close |-> 0],
           book |-> [raises |-> TRUE, bid |-> 0, ask |-> 0]]

InitConcurrent ==
    /\ market = [amount_prec |-> 1, min |-> 0]
    /\ mode = "notional"
    /\ acct \in Positions
    /\ h = [p \in Workers |-> Idle]
    /\ nreq = 0
    /\ quant = NoQuant
    /\ probe = NoProbe

NextConcurrent ==
    \E p \in Workers :
        \/ \E pl \in ConcurrentPayloads : Receive(p, pl, Quoted)
        \/ \E fetched \in BOOLEAN : ReadPosition(p, fetched)
        \/ \E o \in GwOutcomes : ReduceOnlyClose(p, Quoted, o)
        \/ \E o \in GwOutcomes : PlaceMarket(p, Quoted, o)
        \/ Return(p)

SpecConcurrent == InitConcurrent /\ [][NextConcurrent]_vars

\* ------------------------------------------------------------ properties
\* An order call without its outcome: what was asked of the gateway.
Order(c) == [side |-> c.side, amount |-> c.amount, reduce_only |-> c.reduce_only]

Orders(p) == [i \in 1..Len(h[p].calls) |-> Order(h[p].calls[i])]

IsPrefix(s, t) == Len(s) <= Len(t) /\ \A i \in 1..Len(s) : s[i] = t[i]

HasRead(p) == h[p].pc \in {"close", "place", "done"} /\ h[p].pos_reads > 0

Opposed(p) ==
    HasRead(p) /\ h[p].pos.side \in {"long", "short"} /\ h[p].pos.size > 0
               /\ h[p].pos.side # h[p].desired_side

Aligned(p) ==
    HasRead(p) /\ h[p].pos.side \in {"long", "short"} /\ h[p].pos.size > 0
               /\ h[p].pos.side = h[p].desired_side

ReadFlat(p) == HasRead(p) /\ h[p].pos = Flat

Answered(p) == h[p].pc = "done"

ExpectedClose(p) ==
    [side |-> IF h[p].pos.side = "long" THEN "sell" ELSE "buy",
     amount |-> h[p].pos.size, reduce_only |-> TRUE]

ExpectedOpen(p) ==
    [side |-> h[p].action, amount |-> h[p].desired_amt, reduce_only |-> FALSE]

\* C1: in a request that read a non-flat position opposite to the signal, the
\* order calls are, in this order, the reduce-only close of the size read on
\* the side opposite to the position and the non-reduce-only order of the
\* target amount on the signal's side: never another call, and exactly these
\* two when the request is answered with status ok.
C1_FlipTwoOrders ==
    \A p \in Workers :
        Opposed(p) =>
            /\ IsPrefix(Orders(p), <<ExpectedClose(p), ExpectedOpen(p)>>)
            /\ (Answered(p) /\ h[p].resp.status = "ok")
                   => Orders(p) = <<ExpectedClose(p), ExpectedOpen(p)>>

C1_Witness ==
    \E p \in Workers :
        /\ Opposed(p) /\ Answered(p) /\ h[p].resp.status = "ok"
        /\ h[p].pos = [side |-> "short", size |-> 3] /\ h[p].action = "buy"
        /\ Len(h[p].calls) = 2

\* C2: in a request that read a FLAT position, the order calls are at most the
\* one non-reduce-only order of the target amount on the signal's side, and
\* exactly that one when the request is answered with status ok; no
\* reduce-only order is among them.
C2_FlatOneOrder ==
    \A p \in Workers :
        ReadFlat(p) =>
            /\ IsPrefix(Orders(p), <<ExpectedOpen(p)>>)
            /\ (Answered(p) /\ h[p].resp.status = "ok") => Orders(p) = <<ExpectedOpen(p)>>
            /\ \A i \in 1..Len(h[p].calls) : ~h[p].calls[i].reduce_only

C2_Witness ==
    \E p \in Workers :
        /\ ReadFlat(p) /\ Answered(p) /\ h[p].resp.status = "ok"
        /\ h[p].action = "sell" /\ Len(h[p].calls) = 1
        /\ h[p].calls[1].held = Flat

\* C3: a request that read a non-flat position on the signal's side makes no
\* order call.
C3_AlignedNoOrders ==
    \A p \in Workers : Aligned(p) => h[p].calls = <<>>

AllFilled(p) == \A i \in 1..Len(h[p].calls) : h[p].calls[i].outcome = "filled"

\* C4: after a request answered with status ok whose orders all filled
\* completely, the account's position is non-flat and on the signal's side,
\* and after a flip its size is the target amount.
C4_PositionFollowsSignal ==
    \A p \in Workers :
        (Answered(p) /\ h[p].resp.status = "ok" /\ AllFilled(p)) =>
            /\ acct.size > 0
            /\ acct.side = (IF h[p].action = "buy" THEN "long" ELSE "short")
            /\ Opposed(p) => acct.size = h[p].desired_amt

FailedClose(c) == c.reduce_only /\ ~Accepted(c.outcome)

\* C5: once the reduce-only close of a flip was rejected by the gateway, it is
\* the request's only order call and the request is answered with an error.
C5_FailedCloseAborts ==
    \A p \in Workers :
        (\E i \in 1..Len(h[p].calls) : FailedClose(h[p].calls[i])) =>
            /\ Len(h[p].calls) = 1
            /\ Answered(p)
            /\ h[p].resp.status = "error"

C5_Witness ==
    \E p \in Workers :
        /\ Opposed(p) /\ Answered(p)
        /\ Len(h[p].calls) = 1 /\ FailedClose(h[p].calls[1])

\* C6: when the close of a flip was accepted and the opening order (or its
\* price fetch) failed, the response carries the close result with the error.
C6_PartialSuccessReported ==
    \A p \in Workers :
        (Answered(p) /\ h[p].close_resp = "order" /\ h[p].resp.status = "error") =>
            /\ "actions" \in h[p].resp.keys
            /\ h[p].resp.closed = "order"
            /\ "message" \in h[p].resp.keys

\* C7: when the opening order of a flip is submitted, the position was re-read
\* after the close, and a position that was not flat at that moment shows as a
\* warning in the response.
C7_PollBeforeOpen ==
    \A p \in Workers :
        (Opposed(p) /\ Answered(p) /\ Len(h[p].calls) = 2) =>
            /\ h[p].pos_reads >= 2
            /\ (h[p].calls[2].held # Flat /\ h[p].resp.status = "ok")
                   => "warning" \in h[p].resp.keys

Attempts(p, c) ==
    Cardinality({i \in 1..Len(h[p].calls) : Order(h[p].calls[i]) = Order(c)})

\* C8: a transient rejection reaches the caller only after the order was
\* submitted three times.
C8_TransientRetried ==
    \A p \in Workers :
        (Answered(p) /\ h[p].calls # <<>>
            /\ h[p].calls[Len(h[p].calls)].outcome = "transient") =>
            Attempts(p, h[p].calls[Len(h[p].calls)]) = 3

\* C9: an order the gateway rejected with a permanent condition was submitted
\* once, nothing is submitted after it, and the request ends with HTTP 400.
C9_PermanentNotRetried ==
    \A p \in Workers :
        \A i \in 1..Len(h[p].calls) :
            h[p].calls[i].outcome = "permanent" =>
                /\ Attempts(p, h[p].calls[i]) = 1
                /\ i = Len(h[p].calls)
                /\ Answered(p)
                /\ h[p].resp.status = "error"
                /\ h[p].resp.http = 400

C9_Witness ==
    \E p \in Workers :
        /\ Answered(p) /\ Len(h[p].calls) = 2
        /\ h[p].calls[1].outcome = "filled"
        /\ h[p].calls[2].outcome = "permanent"

\* C10: for a raw amount x > 0 and rules with amount_step > 0 and
\* min_amount >= amount_step, clamp_amount returns an amount that is positive
\* and at least min_amount.
C10_NoZeroOrders ==
    LET meta == MarketMeta(market)
    IN  (quant.applied /\ quant.n > 0 /\ meta.amount_step > 0
            /\ meta.min_amount >= meta.amount_step) =>
            /\ quant.out.exc = "none"
            /\ quant.out.amt > 0
            /\ quant.out.amt >= meta.min_amount

Feasible(meta) == meta.amount_step > 0 /\ meta.min_amount >= meta.amount_step

\* The largest multiple of step that is at most n/d.
FloorMultiple(n, d, step) == (n \div (d * step)) * step

\* C11: for x > 0, clamp_amount returns the largest multiple of amount_step at
\* most x when that multiple is positive and at least min_amount, and exactly
\* min_amount (amount_step when that is not below it) otherwise.
C11_FloorProperty ==
    LET meta == MarketMeta(market)
        fl == FloorMultiple(quant.n, quant.d, meta.amount_step)
    IN  (quant.applied /\ quant.n > 0 /\ Feasible(meta)) =>
            /\ quant.out.exc = "none"
            /\ quant.out.amt =
                 (IF fl > 0 /\ fl >= meta.min_amount THEN fl
                  ELSE IF meta.amount_step < meta.min_amount THEN meta.min_amount
                  ELSE meta.amount_step)

\* C12: clamp_amount applied to its own result returns that result.
C12_Idempotent ==
    (quant.applied /\ quant.n > 0) => quant.again = quant.out

\* A request past validation that is sized from its notional, with the price
\* the sizing used.
Started(p) == h[p].pc # "idle"

Sizing(p) == h[p].pc \in {"position", "close", "place"} \/ h[p].calls # <<>>

Rejected(p) == Answered(p) /\ h[p].resp.status = "error" /\ h[p].calls = <<>>

WellFormed(pl) ==
    /\ pl.action \in {"buy", "sell"}
    /\ pl.known
    /\ pl.quantity # None \/ pl.notional # None

NotionalPriced(p) ==
    /\ Started(p) /\ WellFormed(h[p].req)
    /\ h[p].req.quantity = None
    /\ h[p].last_price > 0

\* The notional the request is sized from: notional times leverage in margin
\* mode when a leverage is given, the notional itself otherwise.
Effective(p) ==
    IF mode = "margin" /\ h[p].req.leverage # None /\ h[p].req.leverage[1] # 0
    THEN h[p].req.notional[1] * h[p].req.leverage[1]
    ELSE h[p].req.notional[1]

MinNotional(p) == MarketMeta(market).min_amount * h[p].last_price

\* C13: a notional request whose effective notional is below min_amount times
\* the price is answered with the validation error at HTTP 400 and places no
\* order, although the quantized amount itself was raised to the minimum.
C13_BelowMinimumRejected ==
    \A p \in Workers :
        (NotionalPriced(p) /\ Effective(p) < MinNotional(p)) =>
            /\ Rejected(p)
            /\ h[p].resp.http = 400
            /\ h[p].resp.message = "ValueError"

C13_Witness ==
    \E p \in Workers :
        /\ NotionalPriced(p) /\ Effective(p) < MinNotional(p)
        /\ Effective(p) > 0
        /\ Rejected(p) /\ h[p].resp.message = "ValueError"

\* C14: a notional request at or above the minimum notional is sized to the
\* largest multiple of amount_step at most notional / price; that amount is the
\* amount of the opening order and the amount the response echoes.
C14_NotionalConversion ==
    \A p \in Workers :
        (NotionalPriced(p) /\ Effective(p) >= MinNotional(p)) =>
            LET amount == FloorMultiple(Effective(p), h[p].last_price,
                                        MarketMeta(market).amount_step)
            IN  /\ h[p].resp.message # "ValueError"
                /\ Sizing(p) => h[p].desired_amt = amount
                /\ \A i \in 1..Len(h[p].calls) :
                       ~h[p].calls[i].reduce_only => h[p].calls[i].amount = amount
                /\ (Answered(p) /\ h[p].resp.status = "ok") => h[p].resp.amount = amount

\* C17 as stated: buy, sell, long and short are all accepted, buy and long
\* meaning LONG, sell and short meaning SHORT; none is rejected as a validation
\* error.
C17_FourWordsAccepted ==
    \A p \in Workers :
        (Started(p) /\ h[p].req.action \in {"buy", "sell", "long", "short"}) =>
            /\ h[p].resp.message # "action"
            /\ Sizing(p) =>
                   h[p].desired_side =
                       (IF h[p].req.action \in {"buy", "long"} THEN "long" ELSE "short")

\* C17: the direction is buy, meaning LONG, or sell, meaning SHORT; every other
\* word, long and short included, is rejected as a validation error at HTTP 400
\* with no order placed.
C17_BuySellOnly ==
    \A p \in Workers :
        Started(p) =>
            /\ h[p].req.action \notin {"buy", "sell"} =>
                   Rejected(p) /\ h[p].resp = ErrorResp(400, "action")
            /\ h[p].req.action \in {"buy", "sell"} => h[p].resp.message # "action"
            /\ Sizing(p) =>
                   h[p].desired_side = (IF h[p].req.action = "buy" THEN "long" ELSE "short")

C17_Witness ==
    \E p \in Workers :
        /\ h[p].req.action \in {"long", "short"}
        /\ Rejected(p) /\ h[p].resp = ErrorResp(400, "action")

\* C18: when no price can be obtained for a notional request, the request ends
\* with HTTP 400, not 500, and no order is placed after the failed fetch.
C18_NoPriceIs400 ==
    \A p \in Workers :
        (Started(p) /\ WellFormed(h[p].req) /\ h[p].req.quantity = None
            /\ h[p].last_price = 0) =>
            /\ Rejected(p)
            /\ h[p].resp.http = 400

\* C19: a request with no usable direction, no quantity and no notional, or a
\* symbol that is not a known market ends with status error at HTTP 400 and
\* places no order.
C19_ValidationError400 ==
    \A p \in Workers :
        (Started(p) /\ ~WellFormed(h[p].req)) =>
            /\ Rejected(p)
            /\ h[p].resp.http = 400

C19_Witness ==
    \E p \in Workers :
        /\ h[p].req.action = "buy" /\ ~h[p].req.known
        /\ Rejected(p) /\ h[p].resp.http = 400

\* The sizing of a notional n at price px, by the code's own conversion.
SizedFrom(n, px) ==
    ComputeAmountFromNotional(market,
        [ticker |-> [raises |-> FALSE, last |-> px, close |-> 0],
         book |-> [raises |-> TRUE, bid |-> 0, ask |-> 0]], n)

\* C20: in margin mode a request with notional N and leverage L is sized as
\* notional N * L would be; in any other mode, without a leverage, or when the
\* request gives a quantity, the leverage does not change the amount.
C20_LeverageSizing ==
    \A p \in Workers :
        /\ NotionalPriced(p) =>
              LET sized == SizedFrom(Effective(p), h[p].last_price)
              IN  /\ sized.exc = "none" => h[p].resp.message # "ValueError"
                  /\ (sized.exc = "none" /\ Sizing(p)) => h[p].desired_amt = sized.amt
                  /\ sized.exc # "none" => Rejected(p) /\ h[p].resp = Except(sized.exc)
        /\ (Started(p) /\ WellFormed(h[p].req) /\ h[p].req.quantity # None /\ Sizing(p)) =>
              h[p].desired_amt = ClampAmount(market, h[p].req.quantity[1], 1).amt

C20_Witness ==
    \E p \in Workers :
        /\ NotionalPriced(p) /\ mode = "margin" /\ Truthy(h[p].req.leverage)
        /\ Sizing(p)
        /\ h[p].desired_amt = SizedFrom(h[p].req.notional[1] * h[p].req.leverage[1],
                                        h[p].last_price).amt
        /\ h[p].desired_amt # SizedFrom(h[p].req.notional[1], h[p].last_price).amt

\* The signed size of a row that names no side: the first of the keys the
\* reader infers the side from.
SignedSize(row) == FirstOf(row, <<"contracts", "size", "amount">>)

\* C15: the position get_position returns has size 0 exactly when it has no side.
C15_SizeZeroIffFlat ==
    probe.applied => (probe.out.size = 0 <=> probe.out.side = "None")

\* C16: a row for the symbol with a signed size and no side reads as LONG for a
\* positive value and SHORT for a negative one, with the absolute value as size.
C16_SignedSize ==
    (probe.applied /\ probe.fetched /\ probe.row["symbol"] = Some(Symbol)
        /\ probe.row["side"] = None /\ Truthy(SignedSize(probe.row))) =>
        probe.out = [side |-> IF SignedSize(probe.row)[1] > 0 THEN "long" ELSE "short",
                     size |-> Abs(SignedSize(probe.row)[1])]

\* C21: each reduce-only close is submitted while the account holds the
\* position its request read, and a request that read the gateway's answer and
\* is about to close or to place its first order still sees the account as it
\* read it.
C21_NoStaleRead ==
    \A p \in Workers :
        (HasRead(p) /\ h[p].pos_fetched) =>
            /\ \A i \in 1..Len(h[p].calls) :
                   h[p].calls[i].reduce_only => h[p].calls[i].held = h[p].pos
            /\ (h[p].pc \in {"close", "place"} /\ h[p].calls = <<>>) => acct = h[p].pos

\* C22: a request whose position query raised reads FLAT; its order calls are
\* at most the one non-reduce-only order of the target amount on the signal's
\* side, exactly that one when it is answered with status ok, and never a
\* reduce-only order, whatever the account holds.
C22_FailedQueryOpens ==
    \A p \in Workers :
        (HasRead(p) /\ ~h[p].pos_fetched) =>
            /\ h[p].pos = Flat
            /\ IsPrefix(Orders(p), <<ExpectedOpen(p)>>)
            /\ (Answered(p) /\ h[p].resp.status = "ok") => Orders(p) = <<ExpectedOpen(p)>>
            /\ \A i \in 1..Len(h[p].calls) : ~h[p].calls[i].reduce_only

C22_Witness ==
    \E p \in Workers :
        /\ HasRead(p) /\ ~h[p].pos_fetched
        /\ Answered(p) /\ h[p].resp.status = "ok"
        /\ Len(h[p].calls) = 1 /\ ~h[p].calls[1].reduce_only
        /\ h[p].action = "sell" /\ h[p].calls[1].held.side = "long"

\* C23: a request whose quantity is zero or negative passes sizing with the
\* amount max(amount_step, min_amount), and its opening or additive order has
\* that amount on the signal's side.
C23_NonPositiveQuantity ==
    \A p \in Workers :
        (Started(p) /\ WellFormed(h[p].req) /\ h[p].req.quantity # None
            /\ h[p].req.quantity[1] <= 0) =>
            LET meta == MarketMeta(market)
                amount == IF meta.amount_step < meta.min_amount
                          THEN meta.min_amount ELSE meta.amount_step
            IN  /\ Answered(p) => h[p].pos_reads > 0
                /\ Sizing(p) => h[p].desired_amt = amount
                /\ \A i \in 1..Len(h[p].calls) :
                       ~h[p].calls[i].reduce_only =>
                           /\ h[p].calls[i].amount = amount
                           /\ h[p].calls[i].side = h[p].action

====
